---- MODULE Spec2Model ----
(***************************************************************************)
(* Model of lib/fastifySession.js: the fastify session plugin.             *)
(*                                                                         *)
(* Strings that matter (session ids, cookie values) are pairs <<n, m>>:    *)
(* n is the identifier text and m the signature suffix appended after the  *)
(* '.' by cookie-signature (m = 0: no suffix, i.e. an unsigned id).        *)
(* JS undefined / absent string is <<0, 0>>, the `false` that unsign       *)
(* returns is <<0, 1>>.  Tri-state options are "undefined"/"true"/"false". *)
(*                                                                         *)
(* A store call is two steps: the call is issued by the hook (logged in    *)
(* `calls`), and later its callback runs; the store reads or changes its   *)
(* contents at the moment it answers.  Between the two, other requests run.*)
(* ./session, ./store and ./utils are not part of the modelled file: the   *)
(* Session constructor, the store contract and the id generator follow the *)
(* specification (sections 3, 4.1, 4.2).                                   *)
(***************************************************************************)
EXTENDS Integers, Sequences, FiniteSets, TLC

\* ------------------------------------------------------------------ bounds
\* the clock Date.now() runs over 0..MaxNow
MaxNow == 1
\* identifiers a client may present in a cookie are 1..MaxCookieId
MaxCookieId == 3

\* two request slots; the two requests may overlap in any way
Reqs == {1, 2}

\* --------------------------------------------------------------- variables
VARIABLES
  fastify,   \* the plugin registration: state, error, decorators, hooks
  options,   \* the options object (mutated in place by ensureDefaults)
  store,     \* contents of options.store: key -> record
  now,       \* Date.now()
  nextId,    \* entropy consumed so far by generateSessionIds
  pc,        \* per request: where its lifecycle stands
  request,   \* per request: url, cookie, transport signals
  session,   \* per request: request.session
  reply,     \* per request: error passed to done(), Set-Cookie header
  calls      \* per request: store calls / id generations / setCookie, in order

vars == <<fastify, options, store, now, nextId, pc, request, session, reply, calls>>

\* ----------------------------------------------------------------- strings
Undefined == <<0, 0>>
FalseMarker == <<0, 1>>
Id(n) == <<n, 0>>

\* url and cookie path as sequences of characters
RootPath == <<"/">>
AppPath == <<"/", "a">>
NoPath == <<>>
Urls == {RootPath, <<"/", "a", "/", "x">>}

\* String.prototype.indexOf(p) === 0
StartsWith(u, p) == Len(p) <= Len(u) /\ SubSeq(u, 1, Len(p)) = p

\* ------------------------------------------------------- cookie-signature
\* keyed digest of the identifier text
Hmac(n, secret) == ((n + secret.key) % 2) + 1

\* sign(val, secret) = val + '.' + hmac(val)
sign(val, secret) == <<val[1], Hmac(val[1], secret)>>

\* variant: the signature is cut off but never compared
unsignNoCompare(input, secret) == <<input[1], 0>>

\* unsign(input, secret): cut at the last '.', re-sign, compare
unsign(input, secret) ==
  LET tentative == <<input[1], 0>>
      expected == sign(tentative, secret)
  IN IF expected = input THEN tentative ELSE FalseMarker

\* ------------------------------------------------------------------ Session
\* the decorated default request.session = {}
EmptyObj == [sessionId |-> Undefined, encryptedSessionId |-> Undefined,
             expires |-> 0, data |-> {}]
NoPrev == [expires |-> 0, data |-> {}]

\* new Session(sessionId, encryptedSessionId, cookieOpts, secret, prevSession)
\* expires = 0 is the absent (null) expiry; data is the set of added keys
Session(sessionId, encryptedSessionId, prevSession) ==
  [sessionId |-> sessionId, encryptedSessionId |-> encryptedSessionId,
   expires |-> prevSession.expires, data |-> prevSession.data]

\* Object.keys(session).length: sessionId, encryptedSessionId, cookie, expires
\* plus one per data key
ObjectKeys(s) == IF s = EmptyObj THEN 0 ELSE 4 + Cardinality(s.data)

\* generateSessionIds(secret): a new random id and its signed form
generateSessionIds(secret, n) ==
  [sessionId |-> Id(n), encryptedSessionId |-> sign(Id(n), secret)]

\* -------------------------------------------------------------------- Store
\* new Store(): the in-memory store starts empty
EmptyStore == [k \in {} |-> EmptyObj]

StoreSet(s, key, rec) == [k \in DOMAIN s \cup {key} |-> IF k = key THEN rec ELSE s[k]]
StoreDestroy(s, key) == [k \in DOMAIN s \ {key} |-> s[k]]

\* ------------------------------------------------------------------ options
TheSecret(len) == [len |-> len, key |-> 1]

\* a persistent store handed in by the application: it holds records this
\* plugin wrote in an earlier run under the same secret
PersistedStore ==
  LET s == TheSecret(32)
  IN (Id(1) :> [sessionId |-> Id(1), encryptedSessionId |-> sign(Id(1), s),
                expires |-> 1, data |-> {}])
     @@ (Id(2) :> [sessionId |-> Id(2), encryptedSessionId |-> sign(Id(2), s),
                   expires |-> 0, data |-> {0}])

TriState == {"undefined", "true", "false"}

RawOptions ==
  [secret : {TheSecret(0), TheSecret(31), TheSecret(32)},
   store : {"undefined", "custom"},
   cookieName : {"undefined", "sid"},
   secure : TriState,
   path : {NoPath, AppPath},
   saveUninitialized : TriState]

\* only the secret is configured
OnlySecret(secret) ==
  [secret |-> secret, store |-> "undefined", cookieName |-> "undefined",
   secure |-> "undefined", path |-> NoPath, saveUninitialized |-> "undefined"]

\* the option objects the request-level specification registers the plugin
\* with: an application-supplied store and cookie path under every
\* secure/saveUninitialized setting, and the all-defaults configuration
\* (built-in store, no cookie path)
SpecOptions ==
  {o \in RawOptions :
     /\ o.cookieName = "undefined"
     /\ (o.store = "custom" /\ o.path = AppPath) \/ o = OnlySecret(o.secret)}

\* the one configuration of the fair specification
FairOptions ==
  {o \in SpecOptions :
     /\ o.secret = TheSecret(32) /\ o.store = "custom"
     /\ o.secure = "false" /\ o.saveUninitialized = "undefined"}

\* variant: the default replaces every falsy value (options[key] || def)
optionFalsy(value, def) == IF value \in {"undefined", "false"} THEN def ELSE value

\* option(options, key, def)
option(value, def) == IF value = "undefined" THEN def ELSE value

\* variant: only the presence of the secret is checked
checkOptionsNoLength(o) ==
  IF o.secret.len = 0 THEN "the secret option is required!" ELSE "none"

\* checkOptions(options): the error, or "none"
checkOptions(o) ==
  IF o.secret.len = 0 THEN "the secret option is required!"
  ELSE IF o.secret.len < 32 THEN "the secret must have length 32 or greater"
  ELSE "none"

ensureDefaults(o) ==
  [o EXCEPT !.store = IF o.store = "undefined" THEN "memory" ELSE o.store,
            !.cookieName = IF o.cookieName = "undefined" THEN "sessionId" ELSE o.cookieName,
            !.secure = option(o.secure, "true"),
            !.saveUninitialized = option(o.saveUninitialized, "true")]

\* --------------------------------------------------- persistence decision
\* variant: baseline of 3 keys instead of 4
isSessionModifiedBaseline3(sess) == ObjectKeys(sess) # 3

isSessionModified(sess) == ObjectKeys(sess) # 4

\* variant: the x-forwarded-proto header is not consulted
shouldSaveSessionNoProxy(sess, secure, saveUninitialized, encrypted, forwardedProto) ==
  IF saveUninitialized = "false" /\ ~isSessionModified(sess) THEN FALSE
  ELSE IF secure # "true" THEN TRUE
  ELSE encrypted

\* variant: a secure transport is demanded whatever cookie.secure says
shouldSaveSessionAlwaysSecure(sess, secure, saveUninitialized, encrypted, forwardedProto) ==
  IF saveUninitialized = "false" /\ ~isSessionModified(sess) THEN FALSE
  ELSE IF encrypted THEN TRUE
  ELSE forwardedProto = "https"

shouldSaveSession(sess, secure, saveUninitialized, encrypted, forwardedProto) ==
  IF saveUninitialized = "false" /\ ~isSessionModified(sess) THEN FALSE
  ELSE IF secure # "true" THEN TRUE
  ELSE IF encrypted THEN TRUE
  ELSE forwardedProto = "https"

\* ------------------------------------------------- pieces of handleSession
\* variant: the configured path is ignored
CookiePathIgnored(o) == RootPath

\* cookieOpts.path || '/'
CookiePath(o) == IF o.path = NoPath THEN RootPath ELSE o.path

\* the key handed to options.store.get
GetKey(sessionId, decryptedSessionId) == decryptedSessionId

\* the key handed to options.store.destroy
DestroyKey(sessionId, decryptedSessionId) == sessionId

\* variant: a record whose expires equals Date.now() still counts as live
IsExpiredStrict(rec, t) == rec.expires # 0 /\ rec.expires < t

\* session.expires && session.expires <= Date.now()
IsExpired(rec, t) == rec.expires # 0 /\ rec.expires <= t

\* variant: the store is keyed by the signed id
SetKeySigned(sess) == sess.encryptedSessionId

\* the key handed to options.store.set, and the value handed to setCookie
SetKey(sess) == sess.sessionId
\* variant: the cookie carries the unsigned id
CookieValueUnsigned(sess) == sess.sessionId
CookieValue(sess) == sess.encryptedSessionId

\* if (err) ... / err.code === 'ENOENT' / if (!session) ...
HasErr(outcome) == outcome \in {"error", "ENOENT"}
\* variants: every error counts as not-found / no error does
IsENOENTAnyError(outcome) == TRUE
IsENOENTNever(outcome) == FALSE
IsENOENT(outcome) == outcome = "ENOENT"
\* variant: the error argument of the set callback is ignored
SetFailedIgnored(err) == FALSE
SetFailed(err) == err

\* the built-in store never fails; an application-supplied one may
StoreMayFail == options.store # "memory"

\* what a store may answer to get(key)
GetOutcomes(key) ==
  IF options.store = "memory"
  THEN IF key \in DOMAIN store THEN {"found"} ELSE {"empty"}
  ELSE IF key \in DOMAIN store THEN {"found", "error"} ELSE {"ENOENT", "empty", "error"}

Event(op, key) == [op |-> op, key |-> key]

\* --------------------------------------------------------------------- Init
NoRequest == [url |-> NoPath, cookie |-> Undefined, encrypted |-> FALSE,
              forwardedProto |-> "undefined"]
\* done: how often the preHandler hook has called done()
NoReply == [preErr |-> "none", sendErr |-> "none", setCookie |-> Undefined, done |-> 0]

\* cookie values a client may present: none, a forged one, and the validly
\* signed form of each identifier 1..MaxCookieId
Forged == <<1, 3 - Hmac(1, TheSecret(32))>>
Cookies == {Undefined, Forged} \cup {sign(Id(n), TheSecret(32)) : n \in 1..MaxCookieId}

\* the application has built its options object (one of Opts); the plugin is
\* not registered yet
InitOver(Opts) ==
  /\ fastify = [state |-> "init", error |-> "none", decorators |-> {}, hooks |-> {}]
  /\ options \in Opts
  /\ store = EmptyStore
  /\ now = 0
  /\ nextId = MaxCookieId
  /\ pc = [r \in Reqs |-> "new"]
  /\ request = [r \in Reqs |-> NoRequest]
  /\ session = [r \in Reqs |-> EmptyObj]
  /\ reply = [r \in Reqs |-> NoReply]
  /\ calls = [r \in Reqs |-> <<>>]

Init == InitOver(SpecOptions)
InitSetup == InitOver(RawOptions)
InitFair == InitOver(FairOptions)

\* ------------------------------------------------------------------ actions
\* session(fastify, options, next): plugin registration
sessionPlugin ==
  /\ fastify.state = "init"
  /\ IF checkOptions(options) # "none"
     THEN /\ fastify' = [fastify EXCEPT !.state = "failed", !.error = checkOptions(options)]
          /\ UNCHANGED <<options, store>>
     ELSE /\ options' = ensureDefaults(options)
          /\ store' = IF options.store = "undefined" THEN EmptyStore ELSE PersistedStore
          /\ fastify' = [state |-> "ready", error |-> "none",
                         decorators |-> {"sessionStore", "session"},
                         hooks |-> {"preHandler", "onSend"}]
  /\ UNCHANGED <<now, nextId, pc, request, session, reply, calls>>

\* variant: the identifier source is not advanced (ids repeat)
newSessionSameId(r, log) ==
  LET sessionIds == generateSessionIds(options.secret, nextId)
  IN /\ nextId' = nextId
     /\ session' = [session EXCEPT ![r] =
                      Session(sessionIds.sessionId, sessionIds.encryptedSessionId, NoPrev)]
     /\ calls' = [calls EXCEPT ![r] = Append(log, Event("generate", sessionIds.sessionId))]
     /\ reply' = [reply EXCEPT ![r].done = @ + 1]
     /\ pc' = [pc EXCEPT ![r] = "handler"]

\* newSession(secret, request, reply, done, cookieOpts), entered with the
\* request's call log being `log`
newSession(r, log) ==
  LET sessionIds == generateSessionIds(options.secret, nextId)
  IN /\ nextId' = nextId + 1
     /\ session' = [session EXCEPT ![r] =
                      Session(sessionIds.sessionId, sessionIds.encryptedSessionId, NoPrev)]
     /\ calls' = [calls EXCEPT ![r] = Append(log, Event("generate", sessionIds.sessionId))]
     /\ reply' = [reply EXCEPT ![r].done = @ + 1]
     /\ pc' = [pc EXCEPT ![r] = "handler"]

\* preHandler hook up to its first store call
handleSession(r, url, sessionId) ==
  /\ fastify.state = "ready"
  /\ "preHandler" \in fastify.hooks
  /\ pc[r] = "new"
  /\ IF r = 1 THEN TRUE ELSE pc[r - 1] # "new"
  /\ request' = [request EXCEPT ![r].url = url, ![r].cookie = sessionId]
  /\ IF ~StartsWith(url, CookiePath(options))
     THEN /\ pc' = [pc EXCEPT ![r] = "handler"]
          /\ reply' = [reply EXCEPT ![r].done = @ + 1]
          /\ UNCHANGED <<nextId, session, calls>>
     ELSE IF sessionId = Undefined
     THEN newSession(r, calls[r])
     ELSE IF unsign(sessionId, options.secret) = FalseMarker
     THEN newSession(r, calls[r])
     ELSE /\ calls' = [calls EXCEPT ![r] = Append(@,
                 Event("get", GetKey(sessionId, unsign(sessionId, options.secret))))]
          /\ pc' = [pc EXCEPT ![r] = "get"]
          /\ UNCHANGED <<nextId, session, reply>>
  /\ UNCHANGED <<fastify, options, store, now>>

\* the callback of options.store.get; the store's answer is logged
getCallback(r, outcome) ==
  LET sessionId == request[r].cookie
      decryptedSessionId == unsign(sessionId, options.secret)
      key == GetKey(sessionId, decryptedSessionId)
      log == Append(calls[r], Event(outcome, key))
  IN /\ pc[r] = "get"
     /\ outcome \in GetOutcomes(key)
     /\ IF HasErr(outcome)
        THEN IF IsENOENT(outcome)
             THEN newSession(r, log)
             ELSE /\ reply' = [reply EXCEPT ![r].preErr = "backend", ![r].done = @ + 1]
                  /\ pc' = [pc EXCEPT ![r] = "onSend"]
                  /\ calls' = [calls EXCEPT ![r] = log]
                  /\ UNCHANGED <<nextId, session>>
        ELSE IF outcome = "empty"
        THEN newSession(r, log)
        ELSE IF IsExpired(store[key], now)
        THEN /\ calls' = [calls EXCEPT ![r] = Append(log,
                    Event("destroy", DestroyKey(sessionId, decryptedSessionId)))]
             /\ pc' = [pc EXCEPT ![r] = "destroy"]
             /\ UNCHANGED <<nextId, session, reply>>
        ELSE /\ session' = [session EXCEPT ![r] =
                    Session(store[key].sessionId, store[key].encryptedSessionId, store[key])]
             /\ pc' = [pc EXCEPT ![r] = "handler"]
             /\ calls' = [calls EXCEPT ![r] = log]
             /\ reply' = [reply EXCEPT ![r].done = @ + 1]
             /\ UNCHANGED nextId
     /\ UNCHANGED <<fastify, options, store, now, request>>

\* variant: the `return` after done(err) is missing, so the error path falls
\* through into newSession and done() runs a second time
destroyCallbackNoReturn(r, err) ==
  LET key == calls[r][Len(calls[r])].key
      log == Append(calls[r], Event(IF err THEN "destroyError" ELSE "destroyed", key))
      sessionIds == generateSessionIds(options.secret, nextId)
  IN /\ pc[r] = "destroy"
     /\ err => StoreMayFail
     /\ store' = IF err THEN store ELSE StoreDestroy(store, key)
     /\ IF err
        THEN /\ reply' = [reply EXCEPT ![r].preErr = "backend", ![r].done = @ + 2]
             /\ pc' = [pc EXCEPT ![r] = "onSend"]
             /\ nextId' = nextId + 1
             /\ session' = [session EXCEPT ![r] =
                    Session(sessionIds.sessionId, sessionIds.encryptedSessionId, NoPrev)]
             /\ calls' = [calls EXCEPT ![r] =
                    Append(log, Event("generate", sessionIds.sessionId))]
        ELSE newSession(r, log)
     /\ UNCHANGED <<fastify, options, now, request>>

\* destroyCallback(err): the store deletes the key it was given and answers
destroyCallback(r, err) ==
  LET key == calls[r][Len(calls[r])].key
      log == Append(calls[r], Event(IF err THEN "destroyError" ELSE "destroyed", key))
  IN /\ pc[r] = "destroy"
     /\ err => StoreMayFail
     /\ store' = IF err THEN store ELSE StoreDestroy(store, key)
     /\ IF err
        THEN /\ reply' = [reply EXCEPT ![r].preErr = "backend", ![r].done = @ + 1]
             /\ pc' = [pc EXCEPT ![r] = "onSend"]
             /\ calls' = [calls EXCEPT ![r] = log]
             /\ UNCHANGED <<nextId, session>>
        ELSE newSession(r, log)
     /\ UNCHANGED <<fastify, options, now, request>>

\* the route handler: application code may write into request.session
handler(r, touch) ==
  /\ pc[r] = "handler"
  /\ session' = IF touch /\ session[r] # EmptyObj
                THEN [session EXCEPT ![r].data = @ \cup {r}]
                ELSE session
  /\ pc' = [pc EXCEPT ![r] = "onSend"]
  /\ UNCHANGED <<fastify, options, store, now, nextId, request, reply, calls>>

\* onSend hook up to its store call
saveSession(r, encrypted, forwardedProto) ==
  /\ pc[r] = "onSend"
  /\ "onSend" \in fastify.hooks
  /\ request' = [request EXCEPT ![r].encrypted = encrypted,
                                ![r].forwardedProto = forwardedProto]
  /\ IF \/ session[r].sessionId = Undefined
        \/ ~shouldSaveSession(session[r], options.secure, options.saveUninitialized,
                              encrypted, forwardedProto)
     THEN /\ pc' = [pc EXCEPT ![r] = "sent"]
          /\ UNCHANGED calls
     ELSE /\ calls' = [calls EXCEPT ![r] = Append(@, Event("set", SetKey(session[r])))]
          /\ pc' = [pc EXCEPT ![r] = "set"]
  /\ UNCHANGED <<fastify, options, store, now, nextId, session, reply>>

\* the callback of options.store.set: the store upserts and answers
setCallback(r, err) ==
  LET key == calls[r][Len(calls[r])].key
      log == Append(calls[r], Event(IF err THEN "setError" ELSE "stored", key))
  IN /\ pc[r] = "set"
     /\ err => StoreMayFail
     /\ store' = IF err THEN store ELSE StoreSet(store, key, session[r])
     /\ IF SetFailed(err)
        THEN /\ reply' = [reply EXCEPT ![r].sendErr = "backend"]
             /\ calls' = [calls EXCEPT ![r] = log]
        ELSE /\ reply' = [reply EXCEPT ![r].setCookie = CookieValue(session[r])]
             /\ calls' = [calls EXCEPT ![r] =
                            Append(log, Event("setCookie", CookieValue(session[r])))]
     /\ pc' = [pc EXCEPT ![r] = "sent"]
     /\ UNCHANGED <<fastify, options, now, nextId, request, session>>

\* time passes
Tick ==
  /\ now < MaxNow
  /\ now' = now + 1
  /\ UNCHANGED <<fastify, options, store, nextId, pc, request, session, reply, calls>>

Next ==
  \/ sessionPlugin
  \/ \E r \in Reqs, url \in Urls, c \in Cookies : handleSession(r, url, c)
  \/ \E r \in Reqs, outcome \in {"found", "ENOENT", "empty", "error"} : getCallback(r, outcome)
  \/ \E r \in Reqs, err \in BOOLEAN : destroyCallback(r, err)
  \/ \E r \in Reqs, touch \in BOOLEAN : handler(r, touch)
  \/ \E r \in Reqs, e \in BOOLEAN, fp \in {"undefined", "https"} : saveSession(r, e, fp)
  \/ \E r \in Reqs, err \in BOOLEAN : setCallback(r, err)
  \/ Tick

Spec == Init /\ [][Next]_vars

\* plugin registration alone, over every options object
NextSetup == sessionPlugin
SpecSetup == InitSetup /\ [][NextSetup]_vars

\* every store call is eventually answered (specification section 5: store
\* calls are asynchronous operations that complete)
StoreAnswers ==
  \A r \in Reqs :
    /\ WF_vars(\E outcome \in {"found", "ENOENT", "empty", "error"} : getCallback(r, outcome))
    /\ WF_vars(\E err \in BOOLEAN : destroyCallback(r, err))
    /\ WF_vars(\E err \in BOOLEAN : setCallback(r, err))
SpecFair == InitFair /\ [][Next]_vars /\ StoreAnswers

\* ------------------------------------------------------------------- claims
HasOp(r, op) == \E i \in DOMAIN calls[r] : calls[r][i].op = op
Minted(r) == {calls[r][i].key : i \in {j \in DOMAIN calls[r] : calls[r][j].op = "generate"}}
Arrived(r) == pc[r] # "new"
InScope(r) == Arrived(r) /\ StartsWith(request[r].url, CookiePath(options))
Resolved(r) == pc[r] \in {"handler", "onSend", "set", "sent"}
Answered(r) == pc[r] \in {"set", "sent"}
ValidlySigned(c) == c # Undefined /\ c = sign(<<c[1], 0>>, options.secret)
SecureTransport(r) == request[r].encrypted \/ request[r].forwardedProto = "https"
DefaultsOnly == fastify.state = "ready" /\ options = ensureDefaults(OnlySecret(TheSecret(32)))

\* C1: every Store.destroy issued by inbound resolution for an expired record
\* is keyed by the unsigned id, the key the record was fetched under.
C1_DestroyKeyIsFetchedKey ==
  \A r \in Reqs : \A i \in DOMAIN calls[r] :
    calls[r][i].op = "destroy" =>
      /\ calls[r][i].key = <<request[r].cookie[1], 0>>
      /\ calls[r][i].key = calls[r][1].key

\* C2: for a request that found an expired record, the fresh id is generated
\* only right after the destroy has completed successfully, the entity attached
\* carries that id, a later Store.set is keyed by it, it differs from the
\* expired id, and the response cookie differs from the request cookie.
C2_DestroyThenFreshId ==
  \A r \in Reqs :
    HasOp(r, "destroy") =>
      /\ \A j \in DOMAIN calls[r] :
           /\ calls[r][j].op = "generate" => j > 1 /\ calls[r][j - 1].op = "destroyed"
           /\ calls[r][j].op = "destroyed" => calls[r][j - 1].op = "destroy"
           /\ calls[r][j].op = "set" => calls[r][j].key \in Minted(r) /\ j > 1
      /\ <<request[r].cookie[1], 0>> \notin Minted(r)
      /\ Resolved(r) /\ reply[r].preErr = "none" =>
           Minted(r) # {} /\ session[r].sessionId \in Minted(r)
      /\ reply[r].setCookie # Undefined =>
           /\ reply[r].setCookie # request[r].cookie
           /\ <<reply[r].setCookie[1], 0>> \in Minted(r)

C2_Witness ==
  \E r \in Reqs : HasOp(r, "destroy") /\ HasOp(r, "stored") /\ reply[r].setCookie # Undefined

\* C3 as stated: with only the secret configured, every cookie-less request's
\* response carries a Set-Cookie whose value unsigns to the fresh id.
C3_NoCookieAlwaysSetCookie ==
  \A r \in Reqs :
    DefaultsOnly /\ pc[r] = "sent" /\ request[r].cookie = Undefined =>
      /\ reply[r].setCookie # Undefined
      /\ unsign(reply[r].setCookie, options.secret) \in Minted(r)

\* C3 amended: with only the secret configured, a cookie-less request's
\* response carries a Set-Cookie (whose value unsigns to the fresh id minted
\* for the request) exactly when the connection is encrypted or
\* x-forwarded-proto is 'https' (and the Store.set then issued reports no
\* error); otherwise neither Store.set nor Set-Cookie happens.
C3_NoCookieSetCookieOnSecureTransport ==
  \A r \in Reqs :
    DefaultsOnly /\ pc[r] = "sent" /\ request[r].cookie = Undefined =>
      /\ Minted(r) # {}
      /\ HasOp(r, "set") <=> SecureTransport(r)
      /\ reply[r].setCookie # Undefined <=> SecureTransport(r) /\ ~HasOp(r, "setError")
      /\ reply[r].setCookie # Undefined =>
           /\ unsign(reply[r].setCookie, options.secret) \in Minted(r)
           /\ unsign(reply[r].setCookie, options.secret) = session[r].sessionId

C3_Witness ==
  \E r \in Reqs :
    /\ DefaultsOnly /\ pc[r] = "sent" /\ request[r].cookie = Undefined
    /\ request[r].forwardedProto = "https" /\ ~request[r].encrypted
    /\ reply[r].setCookie # Undefined

\* C4: when Store.get answers with a backend error or Store.destroy fails, the
\* error is passed on, no id is generated, no entity is attached, and the
\* response phase issues no Store.set and emits no Set-Cookie.
C4_BackendErrorAborts ==
  \A r \in Reqs :
    HasOp(r, "error") \/ HasOp(r, "destroyError") =>
      /\ reply[r].preErr = "backend"
      /\ Minted(r) = {}
      /\ session[r] = EmptyObj
      /\ ~HasOp(r, "set")
      /\ reply[r].setCookie = Undefined
      /\ pc[r] \in {"onSend", "sent"}

C4_Witness ==
  /\ \E r \in Reqs : HasOp(r, "error") /\ pc[r] = "sent"
  /\ \E r \in Reqs : HasOp(r, "destroyError") /\ pc[r] = "sent"

\* C5: a response carries a Set-Cookie iff outbound persistence decided to save
\* and the Store.set succeeded; a failed Store.set is passed on as an error
\* without Set-Cookie; a decision not to save issues neither.
C5_SetCookieIffStored ==
  \A r \in Reqs :
    pc[r] = "sent" =>
      LET decided ==
            /\ session[r].sessionId # Undefined
            /\ shouldSaveSession(session[r], options.secure, options.saveUninitialized,
                                 request[r].encrypted, request[r].forwardedProto)
      IN /\ reply[r].setCookie # Undefined <=> decided /\ HasOp(r, "stored")
         /\ HasOp(r, "set") <=> decided
         /\ HasOp(r, "setError") => reply[r].sendErr = "backend" /\ reply[r].setCookie = Undefined
         /\ ~HasOp(r, "setError") => reply[r].sendErr = "none"
         /\ ~decided => reply[r].setCookie = Undefined

C5_Witness ==
  /\ \E r \in Reqs : pc[r] = "sent" /\ HasOp(r, "setError")
  /\ \E r \in Reqs : pc[r] = "sent" /\ HasOp(r, "stored")

\* C6: a cookie whose signature does not verify causes no store call during
\* inbound resolution and no error; the request gets a freshly minted entity,
\* as a request without cookie does.
C6_ForgedCookieMintsFresh ==
  \A r \in Reqs :
    InScope(r) /\ request[r].cookie # Undefined /\ ~ValidlySigned(request[r].cookie) =>
      /\ ~HasOp(r, "get") /\ ~HasOp(r, "destroy")
      /\ pc[r] \notin {"get", "destroy"}
      /\ reply[r].preErr = "none"
      /\ calls[r] # <<>> /\ calls[r][1].op = "generate"
      /\ session[r].sessionId = calls[r][1].key
      /\ session[r].encryptedSessionId = sign(calls[r][1].key, options.secret)
      /\ pc[r] = "handler" =>
           session[r] = Session(calls[r][1].key, sign(calls[r][1].key, options.secret), NoPrev)

C6_Witness ==
  \E r \in Reqs : InScope(r) /\ request[r].cookie = Forged /\ pc[r] = "sent"

\* C7: a request without cookie gets a new entity with a freshly generated
\* id/signedId pair, distinct from every id minted for another request, and
\* no Store.get is issued for it.
C7_NoCookieFreshDistinct ==
  \A r \in Reqs :
    InScope(r) /\ request[r].cookie = Undefined =>
      /\ ~HasOp(r, "get")
      /\ calls[r] # <<>> /\ calls[r][1].op = "generate"
      /\ session[r].sessionId = calls[r][1].key
      /\ session[r].encryptedSessionId = sign(calls[r][1].key, options.secret)
      /\ \A q \in Reqs \ {r} : calls[r][1].key \notin Minted(q)

C7_Witness ==
  \A r \in Reqs : InScope(r) /\ request[r].cookie = Undefined /\ pc[r] = "sent"

\* C8: with saveUninitialized=false an entity without any data key at response
\* time is never handed to Store.set and no Set-Cookie is emitted, whatever
\* cookie.secure and the transport signals are.
C8_UninitializedNotSaved ==
  \A r \in Reqs :
    /\ options.saveUninitialized = "false"
    /\ Answered(r)
    /\ session[r].sessionId # Undefined
    /\ session[r].data = {}
    => ~HasOp(r, "set") /\ reply[r].setCookie = Undefined

C8_Witness ==
  \E r \in Reqs :
    /\ options.saveUninitialized = "false" /\ options.secure = "false"
    /\ pc[r] = "sent" /\ request[r].encrypted
    /\ session[r].sessionId # Undefined /\ session[r].data = {}

\* C9: for an entity the uninitialized-save policy does not suppress, Store.set
\* is issued exactly when cookie.secure is not true, or the connection is
\* encrypted, or x-forwarded-proto is 'https'.
C9_SecureGate ==
  \A r \in Reqs :
    /\ Answered(r)
    /\ session[r].sessionId # Undefined
    /\ ~(options.saveUninitialized = "false" /\ session[r].data = {})
    => (HasOp(r, "set") <=> (options.secure # "true" \/ SecureTransport(r)))

C9_Witness ==
  \E r \in Reqs :
    /\ pc[r] = "sent" /\ options.secure = "true" /\ ~SecureTransport(r)
    /\ session[r].data # {} /\ ~HasOp(r, "set") /\ reply[r].setCookie = Undefined

\* C10: a store miss on a validly signed cookie, reported as ENOENT or as an
\* empty result, is not passed on as an error: a fresh entity is minted and
\* attached, and no Store.destroy is issued.
C10_StoreMissMintsFresh ==
  \A r \in Reqs :
    HasOp(r, "ENOENT") \/ HasOp(r, "empty") =>
      /\ ValidlySigned(request[r].cookie)
      /\ reply[r].preErr = "none"
      /\ ~HasOp(r, "destroy")
      /\ Len(calls[r]) >= 3 /\ calls[r][3].op = "generate"
      /\ session[r].sessionId = calls[r][3].key
      /\ session[r].encryptedSessionId = sign(calls[r][3].key, options.secret)

C10_Witness ==
  /\ \E r \in Reqs : HasOp(r, "ENOENT") /\ Resolved(r)
  /\ \E r \in Reqs : HasOp(r, "empty") /\ Resolved(r)

\* C11: setup with a missing secret or one shorter than 32 characters ends
\* with an error and registers no decorators and no hooks (so no request is
\* ever handled); setup with a secret of length >= 32 registers the preHandler
\* and onSend hooks and ends without error.
C11_SecretGate ==
  /\ options.secret.len < 32 =>
       /\ fastify.state \in {"init", "failed"}
       /\ fastify.decorators = {} /\ fastify.hooks = {}
       /\ \A r \in Reqs : pc[r] = "new"
  /\ fastify.state = "failed" => options.secret.len < 32 /\ fastify.error # "none"
  /\ fastify.state = "ready" =>
       /\ options.secret.len >= 32
       /\ fastify.error = "none"
       /\ fastify.hooks = {"preHandler", "onSend"}

C11_Witness == fastify.state = "failed" /\ options.secret.len = 31

\* C12: a request whose URL does not start with the configured cookie path is
\* skipped: no entity is assigned, no id generated, no store call issued in
\* any phase, no Set-Cookie emitted, no error.
C12_OutOfScopeSkipped ==
  \A r \in Reqs :
    /\ Arrived(r)
    /\ ~StartsWith(request[r].url, IF options.path = NoPath THEN RootPath ELSE options.path)
    => /\ session[r] = EmptyObj
       /\ calls[r] = <<>>
       /\ reply[r].setCookie = Undefined
       /\ reply[r].preErr = "none" /\ reply[r].sendErr = "none"
       /\ pc[r] \in {"handler", "onSend", "sent"}

C12_Witness ==
  \E r \in Reqs :
    /\ pc[r] = "sent" /\ options.path = AppPath /\ request[r].url = RootPath
    /\ request[r].cookie = sign(Id(2), options.secret)

\* C13: the setup step turns an undefined cookie.secure and an undefined
\* saveUninitialized into true and keeps an explicit value (false included);
\* the store becomes the built-in one and the cookie name the fixed literal
\* only when not supplied; secret and path are left alone.
C13_Defaults ==
  [][fastify.state = "init" /\ fastify'.state = "ready" =>
       /\ options'.secure = (IF options.secure = "undefined" THEN "true" ELSE options.secure)
       /\ options'.saveUninitialized =
            (IF options.saveUninitialized = "undefined" THEN "true"
             ELSE options.saveUninitialized)
       /\ options'.store = (IF options.store = "undefined" THEN "memory" ELSE options.store)
       /\ options'.cookieName =
            (IF options.cookieName = "undefined" THEN "sessionId" ELSE options.cookieName)
       /\ options'.secret = options.secret /\ options'.path = options.path]_vars

C13_Witness ==
  /\ fastify.state = "ready"
  /\ options.secure = "false" /\ options.saveUninitialized = "false"
  /\ options.store = "memory" /\ options.cookieName = "sid"

\* the key of the request's Store.get, and whether this step is the store
\* answering that get with a record
FetchKey(r) == calls[r][1].key
FoundStep(r) ==
  /\ pc[r] = "get" /\ pc'[r] # "get"
  /\ calls'[r][Len(calls[r]) + 1].op = "found"
Hydrated(r) == HasOp(r, "found") /\ ~HasOp(r, "destroy")

\* C14: whenever the store answers a get with a record, the record is attached
\* to the request only if its expires is absent or later than the time of the
\* check; a record whose expires is <= now (equal included) is never attached,
\* and a record without expires always is.
C14_NoExpiredHydration ==
  [][\A r \in Reqs :
       FoundStep(r) =>
         LET rec == store[FetchKey(r)]
             expired == rec.expires # 0 /\ rec.expires <= now
         IN /\ expired => session'[r] = EmptyObj /\ pc'[r] = "destroy"
            /\ ~expired =>
                 /\ pc'[r] = "handler"
                 /\ session'[r] = Session(rec.sessionId, rec.encryptedSessionId, rec)
                 /\ calls'[r][Len(calls'[r])].op = "found"]_vars

C14_Witness ==
  \E r \in Reqs :
    /\ pc[r] = "destroy"
    /\ FetchKey(r) \in DOMAIN store
    /\ store[FetchKey(r)].expires = now

\* C15: a request whose validly signed cookie resolves to a live record gets an
\* entity with the record's id and signed id: no id is generated, no destroy
\* issued, and a Store.set / Set-Cookie of that request uses the id and the
\* signed id the request presented.
C15_LiveRecordKeepsIdentity ==
  \A r \in Reqs :
    Hydrated(r) =>
      /\ Minted(r) = {}
      /\ reply[r].preErr = "none"
      /\ session[r].sessionId = <<request[r].cookie[1], 0>>
      /\ session[r].encryptedSessionId = request[r].cookie
      /\ \A i \in DOMAIN calls[r] :
           calls[r][i].op = "set" => calls[r][i].key = <<request[r].cookie[1], 0>>
      /\ reply[r].setCookie # Undefined => reply[r].setCookie = request[r].cookie

C15_Witness ==
  \E r \in Reqs :
    Hydrated(r) /\ HasOp(r, "stored") /\ reply[r].setCookie = request[r].cookie

\* the two requests hydrated the same session, neither saw the other's
\* modification, each wrote its own data key, and q's Store.set has completed
Race(r, q) ==
  /\ r # q
  /\ request[r].cookie = request[q].cookie
  /\ Hydrated(r) /\ Hydrated(q)
  /\ r \in session[r].data /\ q \in session[q].data
  /\ q \notin session[r].data /\ r \notin session[q].data
  /\ pc[q] = "sent" /\ HasOp(q, "stored")

\* C17: when two requests hydrated the same session id, each modified its own
\* entity and both persist, the Store.set completing last leaves exactly its
\* entity under that id: the other request's modification is gone, and neither
\* request carries an error.
C17_LastWriteWins ==
  [][\A r \in Reqs : \A q \in Reqs :
       /\ Race(r, q)
       /\ pc[r] = "set" /\ pc'[r] = "sent"
       /\ calls'[r][Len(calls[r]) + 1].op = "stored"
       => /\ store[FetchKey(r)] = session[q]
          /\ store'[FetchKey(r)] = session[r]
          /\ q \notin store'[FetchKey(r)].data
          /\ reply'[r].preErr = "none" /\ reply'[r].sendErr = "none"
          /\ reply[q].preErr = "none" /\ reply[q].sendErr = "none"]_vars

C17_Witness ==
  \E r \in Reqs : \E q \in Reqs :
    /\ Race(r, q) /\ pc[r] = "sent" /\ HasOp(r, "stored")
    /\ store[FetchKey(r)] = session[r]
    /\ q \notin store[FetchKey(r)].data

\* C18: when the inbound resolution of a request that found an expired record
\* completes without error, the store holds no record under the expired id.
C18_ExpiredRecordGone ==
  [][\A r \in Reqs :
       pc[r] = "destroy" /\ pc'[r] # "destroy" /\ reply'[r].preErr = "none"
       => FetchKey(r) \notin DOMAIN store']_vars

\* C19: every Store.set is keyed by the id of the entity inbound resolution
\* attached to the same request, the Set-Cookie value is that entity's signed
\* id, and every record in the store under key k carries sessionId = k and a
\* signed id that verifies to k.
C19_StoreKeyedByEntityId ==
  /\ \A r \in Reqs :
       /\ \A i \in DOMAIN calls[r] :
            calls[r][i].op = "set" =>
              /\ calls[r][i].key = session[r].sessionId
              /\ \/ calls[r][i].key \in Minted(r)
                 \/ Hydrated(r) /\ calls[r][i].key = FetchKey(r)
       /\ reply[r].setCookie # Undefined =>
            /\ reply[r].setCookie = session[r].encryptedSessionId
            /\ unsign(reply[r].setCookie, options.secret) = session[r].sessionId
  /\ \A k \in DOMAIN store :
       /\ store[k].sessionId = k
       /\ unsign(store[k].encryptedSessionId, options.secret) = k

C19_Witness ==
  \E r \in Reqs :
    /\ HasOp(r, "stored") /\ Minted(r) # {}
    /\ session[r].sessionId \in DOMAIN store
    /\ store[session[r].sessionId] = session[r]

\* C20: when two requests present the same validly signed cookie of one
\* expired record (each finds it expired, or already gone) and no store call
\* reports an error, neither request fails
\* and each ends with its own freshly minted entity; the two fresh ids differ
\* from each other and from the expired id.
C20_ConcurrentExpiredBothFresh ==
  \A r \in Reqs : \A q \in Reqs \ {r} :
    /\ request[r].cookie = request[q].cookie
    /\ HasOp(r, "destroy")
    /\ HasOp(q, "destroy") \/ HasOp(q, "ENOENT") \/ HasOp(q, "empty")
    /\ Resolved(r) /\ Resolved(q)
    /\ \A x \in {r, q} : ~HasOp(x, "error") /\ ~HasOp(x, "destroyError")
    => /\ reply[r].preErr = "none" /\ reply[q].preErr = "none"
       /\ Minted(r) # {} /\ Minted(q) # {}
       /\ session[r].sessionId \in Minted(r) /\ session[q].sessionId \in Minted(q)
       /\ session[r].sessionId # session[q].sessionId
       /\ <<request[r].cookie[1], 0>> \notin Minted(r) \cup Minted(q)

C20_Witness ==
  \E r \in Reqs : \E q \in Reqs \ {r} :
    /\ request[r].cookie = request[q].cookie
    /\ pc[r] = "destroy"
    /\ HasOp(q, "destroyed") /\ pc[q] = "handler"

\* C16: provided every store call is answered, every in-scope inbound
\* resolution completes, and exactly once: done() is never called twice, it
\* has been called exactly when the resolution is over, and then either an
\* entity with an identity is attached and there is no error, or an error is
\* passed on and no entity is attached.
C16_ResolutionCompletesOnce ==
  /\ [](\A r \in Reqs :
          /\ reply[r].done <= 1
          /\ reply[r].done = 1 <=> Resolved(r)
          /\ InScope(r) /\ Resolved(r) =>
               \/ reply[r].preErr = "none" /\ session[r].sessionId # Undefined
               \/ reply[r].preErr # "none" /\ session[r] = EmptyObj)
  /\ \A r \in Reqs : (pc[r] \in {"get", "destroy"}) ~> (reply[r].done = 1)

C16_Witness ==
  /\ \E r \in Reqs : HasOp(r, "destroyed") /\ reply[r].done = 1
  /\ \E r \in Reqs : HasOp(r, "destroyError") /\ reply[r].done = 1
====
